---- MODULE Spec2Model ----
(***************************************************************************)
(* Live aircraft state and track-history buffers of the ADS-B map          *)
(* frontend: the polled snapshot (useAircraftData), the per-aircraft track *)
(* buffers (useAircraftTracks), the age filter (useFilteredAircraft) and   *)
(* the map's "valid position" filter (AircraftMap).                        *)
(*                                                                         *)
(* Specifications                                                          *)
(*   Spec        the track buffers and the filters under any sequence of   *)
(*               responses, threshold changes and passages of time;        *)
(*   SpecFeed    one identifier fed a sequence of snapshots, with the      *)
(*               history of the positions fed;                             *)
(*   SpecFilter  the age filter over records with every kind of lastseen;  *)
(*   SpecPoll    the polling schedule of useAircraftData: mount, timer,    *)
(*               fetches in flight, interval change, unmount;              *)
(*   SpecColor   the marker colour of AircraftMap.getAircraftColor;        *)
(*   SpecLive    the track buffers under polls that keep succeeding;       *)
(*   SpecSelect  the selected aircraft of AircraftMap and its detailed     *)
(*               track.                                                    *)
(*                                                                         *)
(* Encoding of JavaScript values                                           *)
(*   - an optional number (latitude, longitude, lastseen) is a tuple:      *)
(*     <<>> for null / undefined, <<n>> for the number n;                  *)
(*   - coordinates are integers counting units of 0.001 degree, so that    *)
(*     TRACK_MIN_DISTANCE_CHANGE (0.001) is 1 unit;                        *)
(*   - an identifier is a string, "" standing for every falsy icao24       *)
(*     (null, undefined, empty);                                           *)
(*   - the clock is Date.now() in milliseconds, counted from an epoch that *)
(*     is a whole number of seconds.                                       *)
(***************************************************************************)
EXTENDS Integers, Sequences, FiniteSets, TLC

\* ------------------------------------------------------------------------
\* Program constants (constants.js)
\* ------------------------------------------------------------------------

\* 500 in the source. The code reads it only in `length > MAX_TRACK_POINTS`
\* and `slice(-MAX_TRACK_POINTS)`; the model scales it down to 2 so that the
\* overflow of a buffer is reached.
MAX_TRACK_POINTS == 2

\* 0.001 degree, in coordinate units of 0.001 degree
TRACK_MIN_DISTANCE_CHANGE == 1

DEFAULT_REFRESH_INTERVAL == 1

DEFAULT_MAX_AGE_MINUTES == 5

REFRESH_INTERVAL_MIN == 1

MAX_AGE_MIN == 1

\* ------------------------------------------------------------------------
\* Bounds of the model
\* ------------------------------------------------------------------------

\* the clock advances in steps of ClockStep milliseconds, MaxTicks times
ClockStep == 360250
MaxTicks == 2

\* longest snapshot the fetch collaborator returns
MaxSnapshotLen == 1

\* SpecPoll: the poll interval is REFRESH_INTERVAL_MIN..MaxRefreshInterval
\* seconds, the clock runs for MaxPollSeconds seconds, and at most MaxFetches
\* fetches are issued
MaxRefreshInterval == 2
MaxPollSeconds == 2
MaxFetches == 3

\* track requests issued by AircraftMap in SpecSelect
MaxTrackRequests == 3

\* ------------------------------------------------------------------------
\* Values
\* ------------------------------------------------------------------------

Null == <<>>

Num(n) == <<n>>

\* typeof v === 'number'
IsNumber(v) == Len(v) = 1

\* JavaScript truthiness of an optional number: null, undefined and 0 are falsy
Truthy(v) == Len(v) = 1 /\ v[1] # 0

NoId == ""

Ids == {"A", "B"}

Abs(x) == IF x < 0 THEN -x ELSE x

Last(s) == s[Len(s)]

\* the slice keeping one element fewer: slice(-(n - 1))
SliceLast_OneFewer(s, n) ==
    IF Len(s) <= n - 1 THEN s ELSE SubSeq(s, Len(s) - n + 2, Len(s))

\* Array.prototype.slice(-n)
SliceLast(s, n) == IF Len(s) <= n THEN s ELSE SubSeq(s, Len(s) - n + 1, Len(s))

\* the records the fetch collaborator may return: aircraft "A" without
\* lastseen, at four places or with one coordinate missing; aircraft "B" with
\* lastseen, at one place or with its latitude missing; a record without
\* identifier. A place is <<longitude, latitude>>.
PlacesA == {<<0, 0>>, <<1, 0>>, <<2, 0>>, <<1, 2>>}

MaxAgeValues == {MAX_AGE_MIN, DEFAULT_MAX_AGE_MINUTES}

Rec(id, lat, lon, seen) ==
    [icao24 |-> id, latitude |-> lat, longitude |-> lon, lastseen |-> seen]

Records ==
    {Rec("A", Num(p[2]), Num(p[1]), Null) : p \in PlacesA}
    \cup {Rec("A", Null, Num(0), Null), Rec("A", Num(0), Null, Null)}
    \cup {Rec("B", Num(2), Num(2), Num(1)), Rec("B", Null, Num(2), Num(1))}
    \cup {Rec(NoId, Num(2), Num(2), Null)}

\* identifiers are unique per aircraft: a snapshot names each one at most once
DistinctIds(s) ==
    \A i, j \in 1..Len(s) : (i # j /\ s[i].icao24 # NoId) => s[i].icao24 # s[j].icao24

\* the backend lists the aircraft in one order: "A", "B", then the records
\* without identifier
IdRank(id) == CASE id = "A" -> 1 [] id = "B" -> 2 [] OTHER -> 3

ListedInOrder(s) ==
    \A i \in 1..(Len(s) - 1) : IdRank(s[i].icao24) <= IdRank(s[i + 1].icao24)

\* all snapshots of at most MaxSnapshotLen records
Snapshots ==
    {s \in UNION {[1..n -> Records] : n \in 0..MaxSnapshotLen} :
        DistinctIds(s) /\ ListedInOrder(s)}

\* ------------------------------------------------------------------------
\* State
\* ------------------------------------------------------------------------

VARIABLES
    aircraft,          \* useAircraftData: the held snapshot
    lastUpdate,        \* useAircraftData: time of the last successful fetch
    error,             \* useAircraftData: message of the last failure, or ""
    loading,           \* useAircraftData: no fetch has settled yet
    maxAgeMinutes,     \* App: staleness threshold
    filteredAircraft,  \* useFilteredAircraft: the memoized live subset
    tracks,            \* useAircraftTracks: icao24 -> sequence of <<lon, lat, ts>>
    now,               \* Date.now()
    \* history variables
    lastPass,          \* id -> what the last received snapshot did to id's buffer
    fedSlow,           \* id -> since id's buffer was created, every snapshot gave
                       \*       id a valid position within the threshold of the
                       \*       position the snapshot before gave it
    fedAnchor,         \* id -> the place that created id's buffer, as long as
                       \*       every snapshot since gave id a valid position
                       \*       within the threshold of that place; else Null
    fedRun,            \* id -> <<n, tail>>: since id's buffer was created, n
                       \*       snapshots (counted up to MAX_TRACK_POINTS + 1)
                       \*       gave id a valid position, each further than the
                       \*       threshold from the one before, and tail is the
                       \*       last MAX_TRACK_POINTS of these places; else Null
    heldBefore,        \* id -> the points of id's buffer when it was last
                       \*       evicted, or Null
    prevHeld,          \* the buffer map that was held before the last pass
    prevSeen,          \* what the holder of that map object reads in it after
                       \* the pass
    nextSeen,          \* what the holder of the map object returned by the
                       \* pass reads in it
    \* the polling schedule
    mounted,           \* App is mounted
    refreshInterval,   \* App: poll interval in seconds
    timers,            \* the active setInterval timers: [id, every, due], the
                       \* period and the time of the next call in ms
    interval,          \* the timer id held by the effect's pending cleanup
    inFlight,          \* the calls of fetchAllAircraft that have not settled,
                       \* each named by its number in the order of the calls
    \* history variables of the polling schedule
    issued,            \* number of calls of fetchAllAircraft so far
    failedAfter,       \* <<the value of issued when a fetch last failed>>, or Null
    receivedLog,       \* the fetches whose snapshot the mounted App received,
                       \* in the order received
    applied,           \* the fetches whose snapshot updateTracks has processed,
                       \* in the order processed
    settledLast,       \* <<the snapshot of the fetch that resolved last>>, or Null
    \* identity of the held snapshot
    snapshotRef,       \* the array held in `aircraft`: 0 and 1 in turn
    \* AircraftMap
    marker,            \* the last marker rendered: [lastseen, color], or Null
    selectedAircraft,  \* icao24 of the selected aircraft, or NoId
    selectedAircraftTrack, \* <<icao24 the held detailed track was requested for>>,
                       \* or Null
    loadingTrack,      \* AircraftMap: the loading indicator of the sidebar
    isTrackingAircraft, \* App: the flag set through onTrackingAircraft
    trackRequests,     \* the calls of fetchAircraftTrack that have not
                       \* settled: <<number, icao24>>
    trackIssued        \* number of calls of fetchAircraftTrack so far

feedHist == <<fedSlow, fedAnchor, fedRun, heldBefore, prevHeld, prevSeen, nextSeen>>

pollVars == <<mounted, refreshInterval, timers, interval, inFlight>>

pollHist == <<issued, failedAfter, receivedLog, applied, settledLast>>

mapState == <<marker, selectedAircraft, selectedAircraftTrack, loadingTrack,
              isTrackingAircraft, trackRequests, trackIssued>>

\* the selection state of AircraftMap and what it reports to App
selection == <<selectedAircraft, selectedAircraftTrack, loadingTrack,
               isTrackingAircraft, trackRequests, trackIssued>>

vars == <<aircraft, lastUpdate, error, loading, maxAgeMinutes, filteredAircraft,
          tracks, now, lastPass, feedHist, pollVars, pollHist, snapshotRef, mapState>>

\* the empty object {}
NoTracks == [id \in {} |-> <<>>]

\* ------------------------------------------------------------------------
\* useAircraftTracks.updateTracks
\* ------------------------------------------------------------------------

\* the guard written with truthiness: ac.latitude && ac.longitude && ac.icao24
ValidRecord_Truthy(ac) ==
    Truthy(ac.latitude) /\ Truthy(ac.longitude) /\ ac.icao24 # NoId

\* the guard of the forEach body: both coordinates are numbers and icao24 is truthy
ValidRecord(ac) ==
    IsNumber(ac.latitude) /\ IsNumber(ac.longitude) /\ ac.icao24 # NoId

\* the comparison written >= instead of >
Moved_AtLeast(lastPos, position) ==
    LET lonDiff == Abs(lastPos[1] - position[1])
        latDiff == Abs(lastPos[2] - position[2])
    IN  lonDiff >= TRACK_MIN_DISTANCE_CHANGE \/ latDiff >= TRACK_MIN_DISTANCE_CHANGE

\* position changed by more than the minimum distance on one axis
Moved(lastPos, position) ==
    LET lonDiff == Abs(lastPos[1] - position[1])
        latDiff == Abs(lastPos[2] - position[2])
    IN  lonDiff > TRACK_MIN_DISTANCE_CHANGE \/ latDiff > TRACK_MIN_DISTANCE_CHANGE

\* the truncation written slice(0, MAX_TRACK_POINTS): keeps the oldest points
AppendPoint_KeepOldest(buffer, position) ==
    LET longer == Append(buffer, position)
    IN  IF Len(longer) > MAX_TRACK_POINTS
        THEN SubSeq(longer, 1, MAX_TRACK_POINTS)
        ELSE longer

\* append, then keep the most recent MAX_TRACK_POINTS points
AppendPoint(buffer, position) ==
    LET longer == Append(buffer, position)
    IN  IF Len(longer) > MAX_TRACK_POINTS
        THEN SliceLast(longer, MAX_TRACK_POINTS)
        ELSE longer

\* the body stamping a point with the record's lastseen when it has one
RecordPosition_LastSeenStamp(newTracks, ac, timestamp) ==
    IF ValidRecord(ac)
    THEN LET stamp == IF IsNumber(ac.lastseen) THEN ac.lastseen[1] * 1000 ELSE timestamp
             position == <<ac.longitude[1], ac.latitude[1], stamp>>
             id == ac.icao24
         IN  IF id \notin DOMAIN newTracks
             THEN newTracks @@ (id :> <<position>>)
             ELSE IF Moved(Last(newTracks[id]), position)
                  THEN [newTracks EXCEPT ![id] = AppendPoint(@, position)]
                  ELSE newTracks
    ELSE newTracks

\* the body seeding a new buffer with the position twice
RecordPosition_SeedTwice(newTracks, ac, timestamp) ==
    IF ValidRecord(ac)
    THEN LET position == <<ac.longitude[1], ac.latitude[1], timestamp>>
             id == ac.icao24
         IN  IF id \notin DOMAIN newTracks
             THEN newTracks @@ (id :> <<position, position>>)
             ELSE IF Moved(Last(newTracks[id]), position)
                  THEN [newTracks EXCEPT ![id] = AppendPoint(@, position)]
                  ELSE newTracks
    ELSE newTracks

\* the body without the check that the position changed
RecordPosition_NoDedup(newTracks, ac, timestamp) ==
    IF ValidRecord(ac)
    THEN LET position == <<ac.longitude[1], ac.latitude[1], timestamp>>
             id == ac.icao24
         IN  IF id \notin DOMAIN newTracks
             THEN newTracks @@ (id :> <<position>>)
             ELSE [newTracks EXCEPT ![id] = AppendPoint(@, position)]
    ELSE newTracks

\* the body of aircraftData.forEach for one record
RecordPosition(newTracks, ac, timestamp) ==
    IF ValidRecord(ac)
    THEN LET position == <<ac.longitude[1], ac.latitude[1], timestamp>>
             id == ac.icao24
         IN  IF id \notin DOMAIN newTracks
             THEN newTracks @@ (id :> <<position>>)
             ELSE IF Moved(Last(newTracks[id]), position)
                  THEN [newTracks EXCEPT ![id] = AppendPoint(@, position)]
                  ELSE newTracks
    ELSE newTracks

\* aircraftData.forEach, records i..Len(aircraftData), in order
RECURSIVE RecordPositions(_, _, _, _)
RecordPositions(newTracks, aircraftData, i, timestamp) ==
    IF i > Len(aircraftData)
    THEN newTracks
    ELSE RecordPositions(RecordPosition(newTracks, aircraftData[i], timestamp),
                         aircraftData, i + 1, timestamp)

\* the lookup finding only records that have a position
InSnapshot_ValidOnly(aircraftData, icao24) ==
    \E i \in 1..Len(aircraftData) :
        aircraftData[i].icao24 = icao24 /\ ValidRecord(aircraftData[i])

\* aircraftData.find(ac => ac.icao24 === icao24) finds a record
InSnapshot(aircraftData, icao24) ==
    \E i \in 1..Len(aircraftData) : aircraftData[i].icao24 = icao24

\* ageSeconds > maxAgeSeconds, with ageSeconds = currentTime - lastPoint[2] / 1000
\* (a real division), both sides multiplied by 1000
TooOld(lastPoint, nowMs, maxAge) ==
    LET currentTime == nowMs \div 1000
        maxAgeSeconds == maxAge * 60 * 2
    IN  currentTime * 1000 - lastPoint[3] > maxAgeSeconds * 1000

\* the clean-up written newTracks[icao24] = [] instead of delete
CleanUp_EmptyBuffer(newTracks, aircraftData, nowMs, maxAge) ==
    [id \in DOMAIN newTracks |->
        IF /\ ~InSnapshot(aircraftData, id)
           /\ TooOld(Last(newTracks[id]), nowMs, maxAge)
        THEN <<>>
        ELSE newTracks[id]]

\* the clean-up loop over Object.keys(newTracks)
CleanUp(newTracks, aircraftData, nowMs, maxAge) ==
    LET deleted == {id \in DOMAIN newTracks :
                       /\ ~InSnapshot(aircraftData, id)
                       /\ TooOld(Last(newTracks[id]), nowMs, maxAge)}
    IN  [id \in DOMAIN newTracks \ deleted |-> newTracks[id]]

\* the updater passed to setTracks
updateTracks(prev, aircraftData, nowMs, maxAge) ==
    CleanUp(RecordPositions(prev, aircraftData, 1, nowMs), aircraftData, nowMs, maxAge)

\* ------------------------------------------------------------------------
\* updateTracks on objects: the buffer map is an object whose values are
\* references to arrays. A pass state is [map, heap]: map gives the array
\* reference under each key of newTracks, heap the points of each array.
\* The array prevTracks holds for id is <<"prev", id>>; the array created
\* for a record of id is <<"new", id>>.
\* ------------------------------------------------------------------------

\* const newTracks = { ...prevTracks }: a new object with the same arrays
CopyOf(prev) ==
    [map |-> [id \in DOMAIN prev |-> <<"prev", id>>],
     heap |-> [r \in {<<"prev", id>> : id \in DOMAIN prev} |-> prev[r[2]]]]

\* the points read through a map object
Deref(map, heap) == [id \in DOMAIN map |-> heap[map[id]]]

\* a new array is stored under the key id
StoreNew(st, id, points) ==
    LET ref == <<"new", id>>
    IN  [map |-> IF id \in DOMAIN st.map
                 THEN [st.map EXCEPT ![id] = ref]
                 ELSE st.map @@ (id :> ref),
         heap |-> IF ref \in DOMAIN st.heap
                  THEN [st.heap EXCEPT ![ref] = points]
                  ELSE st.heap @@ (ref :> points)]

\* the body written with push: newTracks[ac.icao24].push(position), the
\* array of prevTracks being the one pushed to
RecordPositionRefs_Push(st, ac, timestamp) ==
    IF ValidRecord(ac)
    THEN LET position == <<ac.longitude[1], ac.latitude[1], timestamp>>
             id == ac.icao24
         IN  IF id \notin DOMAIN st.map
             THEN StoreNew(st, id, <<position>>)
             ELSE IF Moved(Last(st.heap[st.map[id]]), position)
                  THEN LET pushed == [st EXCEPT !.heap[st.map[id]] = Append(@, position)]
                       IN  IF Len(pushed.heap[st.map[id]]) > MAX_TRACK_POINTS
                           THEN StoreNew(pushed, id,
                                         SliceLast(pushed.heap[st.map[id]], MAX_TRACK_POINTS))
                           ELSE pushed
                  ELSE st
    ELSE st

\* the body of aircraftData.forEach for one record: [position],
\* [...newTracks[ac.icao24], position] and slice(-MAX_TRACK_POINTS) each
\* create an array, the last one created being stored under the key
RecordPositionRefs(st, ac, timestamp) ==
    IF ValidRecord(ac)
    THEN LET position == <<ac.longitude[1], ac.latitude[1], timestamp>>
             id == ac.icao24
         IN  IF id \notin DOMAIN st.map
             THEN StoreNew(st, id, <<position>>)
             ELSE IF Moved(Last(st.heap[st.map[id]]), position)
                  THEN StoreNew(st, id, AppendPoint(st.heap[st.map[id]], position))
                  ELSE st
    ELSE st

RECURSIVE RecordPositionsRefs(_, _, _, _)
RecordPositionsRefs(st, aircraftData, i, timestamp) ==
    IF i > Len(aircraftData)
    THEN st
    ELSE RecordPositionsRefs(RecordPositionRefs(st, aircraftData[i], timestamp),
                             aircraftData, i + 1, timestamp)

\* the clean-up loop: delete newTracks[icao24] removes a key of the new object
CleanUpRefs(st, aircraftData, nowMs, maxAge) ==
    LET deleted == {id \in DOMAIN st.map :
                       /\ ~InSnapshot(aircraftData, id)
                       /\ TooOld(Last(st.heap[st.map[id]]), nowMs, maxAge)}
    IN  [st EXCEPT !.map = [id \in DOMAIN st.map \ deleted |-> st.map[id]]]

\* the updater passed to setTracks, on objects
updateTracksRefs(prev, aircraftData, nowMs, maxAge) ==
    CleanUpRefs(RecordPositionsRefs(CopyOf(prev), aircraftData, 1, nowMs),
                aircraftData, nowMs, maxAge)

\* the condition of the effect on [aircraft]
EffectRuns(aircraftData) == Len(aircraftData) > 0

\* the effect on [aircraft]: updateTracks runs only for a non-empty snapshot
useAircraftTracks(prev, aircraftData, nowMs, maxAge) ==
    IF EffectRuns(aircraftData)
    THEN updateTracks(prev, aircraftData, nowMs, maxAge)
    ELSE prev

\* ------------------------------------------------------------------------
\* useFilteredAircraft and AircraftMap.validAircraft
\* ------------------------------------------------------------------------

\* the predicate without `if (!ac.lastseen) return true`: a record is kept
\* only if it has a lastseen that is recent
KeepByAge_KnownOnly(ac, nowMs, maxAge) ==
    LET currentTime == nowMs \div 1000
    IN  /\ Truthy(ac.lastseen)
        /\ currentTime - ac.lastseen[1] <= maxAge * 60

\* the predicate of the age filter
KeepByAge(ac, nowMs, maxAge) ==
    LET currentTime == nowMs \div 1000
    IN  \/ ~Truthy(ac.lastseen)
        \/ currentTime - ac.lastseen[1] <= maxAge * 60

\* the filter returning the kept records last first
useFilteredAircraft_Reversed(aircraftData, nowMs, maxAge) ==
    LET Keep(ac) == KeepByAge(ac, nowMs, maxAge)
        kept == SelectSeq(aircraftData, Keep)
    IN  [i \in 1..Len(kept) |-> kept[Len(kept) + 1 - i]]

\* aircraft.filter(...) with currentTime = Math.floor(Date.now() / 1000)
useFilteredAircraft(aircraftData, nowMs, maxAge) ==
    LET Keep(ac) == KeepByAge(ac, nowMs, maxAge)
    IN  SelectSeq(aircraftData, Keep)

\* a => a.latitude && a.longitude
HasPosition(a) == Truthy(a.latitude) /\ Truthy(a.longitude)

validAircraft == SelectSeq(filteredAircraft, HasPosition)

\* ------------------------------------------------------------------------
\* Initial state and actions
\* ------------------------------------------------------------------------

\* a timer started so that its first call is due at once
Timer_DueNow(id, seconds, nowMs) ==
    [id |-> id, every |-> seconds * 1000, due |-> nowMs]

\* the timer that setInterval(fetchAircraft, seconds * 1000) starts at nowMs
\* and returns the id of
Timer(id, seconds, nowMs) ==
    [id |-> id, every |-> seconds * 1000, due |-> nowMs + seconds * 1000]

\* the first render of App: the useState initial values, no effect run yet
FirstRender ==
    /\ aircraft = <<>>
    /\ lastUpdate = Null
    /\ error = ""
    /\ loading = TRUE
    /\ refreshInterval = DEFAULT_REFRESH_INTERVAL
    /\ maxAgeMinutes = DEFAULT_MAX_AGE_MINUTES
    /\ filteredAircraft = <<>>
    /\ tracks = NoTracks
    /\ now = 0
    /\ lastPass = [id \in Ids |-> "none"]
    /\ fedSlow = [id \in Ids |-> FALSE]
    /\ fedAnchor = [id \in Ids |-> Null]
    /\ fedRun = [id \in Ids |-> Null]
    /\ heldBefore = [id \in Ids |-> Null]
    /\ prevHeld = NoTracks
    /\ prevSeen = NoTracks
    /\ nextSeen = NoTracks
    /\ failedAfter = Null
    /\ receivedLog = <<>>
    /\ applied = <<>>
    /\ settledLast = Null
    /\ snapshotRef = 0
    /\ marker = Null
    /\ selectedAircraft = NoId
    /\ selectedAircraftTrack = Null
    /\ loadingTrack = FALSE
    /\ isTrackingAircraft = FALSE
    /\ trackRequests = {}
    /\ trackIssued = 0

\* App mounted: the effect of useAircraftData has called fetchAircraft and
\* setInterval
Init ==
    /\ FirstRender
    /\ mounted = TRUE
    /\ timers = {Timer(1, DEFAULT_REFRESH_INTERVAL, 0)}
    /\ interval = 1
    /\ inFlight = {1}
    /\ issued = 1

\* App rendered, its effects not yet run
InitPoll ==
    /\ FirstRender
    /\ mounted = FALSE
    /\ timers = {}
    /\ interval = 0
    /\ inFlight = {}
    /\ issued = 0

\* the snapshot gives id a record with both coordinates
HasPlace(aircraftData, id) ==
    \E i \in 1..Len(aircraftData) :
        /\ aircraftData[i].icao24 = id
        /\ aircraftData[i].latitude # Null
        /\ aircraftData[i].longitude # Null

\* <<longitude, latitude>> of the record the snapshot gives id
PlaceOf(aircraftData, id) ==
    LET i == CHOOSE i \in 1..Len(aircraftData) :
                 /\ aircraftData[i].icao24 = id
                 /\ aircraftData[i].latitude # Null
                 /\ aircraftData[i].longitude # Null
    IN  <<aircraftData[i].longitude[1], aircraftData[i].latitude[1]>>

\* two places at most the threshold apart on both axes
Within(p, q) ==
    /\ Abs(p[1] - q[1]) <= TRACK_MIN_DISTANCE_CHANGE
    /\ Abs(p[2] - q[2]) <= TRACK_MIN_DISTANCE_CHANGE

\* what one handling of a snapshot did to the buffer of id
Outcome(before, after, id) ==
    IF id \notin DOMAIN before
    THEN IF id \in DOMAIN after THEN "created" ELSE "none"
    ELSE IF id \notin DOMAIN after THEN "evicted"
    ELSE IF after[id] = before[id] THEN "unchanged"
    ELSE IF Len(after[id]) > Len(before[id]) THEN "appended"
    ELSE "truncated"

\* App written to give the live subset to useAircraftTracks:
\* useAircraftTracks(filteredAircraft, maxAgeMinutes)
Settle_TracksFromFiltered(data) ==
    /\ aircraft' = data
    /\ lastUpdate' = Num(now)
    /\ error' = ""
    /\ loading' = FALSE
    /\ filteredAircraft' = useFilteredAircraft(data, now, maxAgeMinutes)
    /\ tracks' = useAircraftTracks(tracks, filteredAircraft', now, maxAgeMinutes)
    /\ lastPass' = [id \in Ids |-> Outcome(tracks, tracks', id)]
    /\ UNCHANGED <<maxAgeMinutes, now>>

\* the try branch written without setError(null)
Settle_KeepError(data) ==
    /\ aircraft' = data
    /\ lastUpdate' = Num(now)
    /\ loading' = FALSE
    /\ filteredAircraft' = useFilteredAircraft(data, now, maxAgeMinutes)
    /\ tracks' = useAircraftTracks(tracks, data, now, maxAgeMinutes)
    /\ lastPass' = [id \in Ids |-> Outcome(tracks, tracks', id)]
    /\ UNCHANGED <<error, maxAgeMinutes, now>>

\* the try branch written as a merge: setAircraft(prev => [...prev, ...data])
Settle_Merge(data) ==
    /\ aircraft' = aircraft \o data
    /\ lastUpdate' = Num(now)
    /\ error' = ""
    /\ loading' = FALSE
    /\ filteredAircraft' = useFilteredAircraft(aircraft', now, maxAgeMinutes)
    /\ tracks' = useAircraftTracks(tracks, aircraft', now, maxAgeMinutes)
    /\ lastPass' = [id \in Ids |-> Outcome(tracks, tracks', id)]
    /\ UNCHANGED <<maxAgeMinutes, now>>

\* fetchAircraft, try branch: the fetch resolves with `data`; the re-render
\* recomputes the age filter and runs the effect that updates the tracks
Settle(data) ==
    /\ aircraft' = data
    /\ lastUpdate' = Num(now)
    /\ error' = ""
    /\ loading' = FALSE
    /\ filteredAircraft' = useFilteredAircraft(data, now, maxAgeMinutes)
    /\ tracks' = useAircraftTracks(tracks, data, now, maxAgeMinutes)
    /\ lastPass' = [id \in Ids |-> Outcome(tracks, tracks', id)]
    /\ UNCHANGED <<maxAgeMinutes, now>>

\* Spec, SpecFeed and SpecFilter leave the polling schedule aside: a response
\* may arrive at any time, and the variables of the schedule stay as they are.
FetchSuccess(data) ==
    /\ Settle(data)
    /\ UNCHANGED <<feedHist, pollVars, pollHist>>
    /\ UNCHANGED <<snapshotRef, mapState>>

\* the same, recording the history of the positions fed to each identifier
Feed(data) ==
    /\ Settle(data)
    /\ fedSlow' = [id \in Ids |->
                      /\ HasPlace(data, id)
                      /\ \/ id \notin DOMAIN tracks
                         \/ /\ fedSlow[id]
                            /\ Within(PlaceOf(aircraft, id), PlaceOf(data, id))]
    /\ fedAnchor' = [id \in Ids |->
                        IF ~HasPlace(data, id) THEN Null
                        ELSE IF id \notin DOMAIN tracks THEN PlaceOf(data, id)
                        ELSE IF fedAnchor[id] # Null
                                /\ Within(fedAnchor[id], PlaceOf(data, id))
                             THEN fedAnchor[id]
                        ELSE Null]
    /\ fedRun' = [id \in Ids |->
                     IF ~HasPlace(data, id) THEN Null
                     ELSE IF id \notin DOMAIN tracks THEN <<1, <<PlaceOf(data, id)>>>>
                     ELSE IF fedRun[id] # Null
                             /\ ~Within(Last(fedRun[id][2]), PlaceOf(data, id))
                          THEN <<IF fedRun[id][1] > MAX_TRACK_POINTS
                                 THEN fedRun[id][1] ELSE fedRun[id][1] + 1,
                                 SliceLast(Append(fedRun[id][2], PlaceOf(data, id)),
                                           MAX_TRACK_POINTS)>>
                     ELSE Null]
    /\ heldBefore' = [id \in Ids |->
                         IF id \in DOMAIN tracks /\ id \notin DOMAIN tracks'
                         THEN tracks[id]
                         ELSE heldBefore[id]]
    /\ prevHeld' = tracks
    /\ IF EffectRuns(data)
       THEN LET st == updateTracksRefs(tracks, data, now, maxAgeMinutes)
            IN  /\ prevSeen' = Deref(CopyOf(tracks).map, st.heap)
                /\ nextSeen' = Deref(st.map, st.heap)
       ELSE prevSeen' = tracks /\ nextSeen' = tracks
    /\ UNCHANGED <<pollVars, pollHist>>
    /\ UNCHANGED <<snapshotRef, mapState>>

\* the catch block written to drop the held snapshot: setAircraft([])
Catch_ClearData ==
    /\ aircraft' = <<>>
    /\ filteredAircraft' = <<>>
    /\ error' = "HTTP error!"
    /\ loading' = FALSE
    /\ UNCHANGED <<lastUpdate, maxAgeMinutes, tracks, now, lastPass>>

\* fetchAircraft, catch block: setError(err.message), setLoading(false)
Catch ==
    /\ error' = "HTTP error!"
    /\ loading' = FALSE
    /\ UNCHANGED <<aircraft, lastUpdate, maxAgeMinutes, filteredAircraft, tracks, now,
                   lastPass>>

\* fetchAircraft, catch branch: the fetch rejects
FetchFailure ==
    /\ Catch
    /\ UNCHANGED <<feedHist, pollVars, pollHist>>
    /\ UNCHANGED <<snapshotRef, mapState>>

\* the Max Age input: setMaxAgeMinutes; the re-render recomputes the age filter
SetMaxAgeMinutes(m) ==
    /\ m # maxAgeMinutes
    /\ maxAgeMinutes' = m
    /\ filteredAircraft' = useFilteredAircraft(aircraft, now, m)
    /\ UNCHANGED <<aircraft, lastUpdate, error, loading, tracks, now, lastPass,
                   feedHist, pollVars, pollHist>>
    /\ UNCHANGED <<snapshotRef, mapState>>

\* time passes
Tick ==
    /\ now + ClockStep <= MaxTicks * ClockStep
    /\ now' = now + ClockStep
    /\ UNCHANGED <<aircraft, lastUpdate, error, loading, maxAgeMinutes,
                   filteredAircraft, tracks, lastPass, feedHist, pollVars, pollHist>>
    /\ UNCHANGED <<snapshotRef, mapState>>

\* The track buffers under polls that succeed. A failed fetch changes error
\* and loading only, which neither updateTracks nor the filters read; it is a
\* step of SpecFeed.
Next ==
    \/ \E data \in Snapshots : FetchSuccess(data)
    \/ \E m \in MaxAgeValues : SetMaxAgeMinutes(m)
    \/ Tick

Spec == Init /\ [][Next]_vars

\* one identifier fed a sequence of snapshots that name it alone
FeedSnapshots == {<<r>> : r \in {q \in Records : q.icao24 = "A"}}

\* the snapshots that name no aircraft
OmittingSnapshots == {<<r>> : r \in {q \in Records : q.icao24 = NoId}}

NextFeed ==
    \/ \E data \in FeedSnapshots \cup OmittingSnapshots : Feed(data)
    \/ FetchFailure
    \/ \E m \in MaxAgeValues : SetMaxAgeMinutes(m)
    \/ Tick

SpecFeed == Init /\ [][NextFeed]_vars

\* ------------------------------------------------------------------------
\* The polling schedule of useAircraftData
\* ------------------------------------------------------------------------

RefreshValues == REFRESH_INTERVAL_MIN..MaxRefreshInterval

\* the snapshots the fetch collaborator returns in SpecPoll
PollSnapshots == {<<>>, <<Rec("A", Num(0), Num(0), Null)>>}

\* the hook state that fetchAircraft's continuation sets, with what the
\* re-render derives from it
hookState == <<aircraft, lastUpdate, error, loading, filteredAircraft, tracks, lastPass>>

\* a cleanup that clears nothing
clearInterval_Nothing(ts, id) == ts

\* clearInterval(interval)
clearInterval(ts, id) == {t \in ts : t.id # id}

\* the body of the effect on [refreshInterval], for the interval of r seconds
\* and the timers ts: fetchAircraft() is called, then setInterval. The fetch
\* and the timer take the next number.
StartPolling(r, ts) ==
    /\ issued' = issued + 1
    /\ inFlight' = inFlight \cup {issued + 1}
    /\ timers' = ts \cup {Timer(issued + 1, r, now)}
    /\ interval' = issued + 1

\* App is mounted, once: the effect runs for the first time
Mount ==
    /\ ~mounted
    /\ issued = 0
    /\ mounted' = TRUE
    /\ StartPolling(refreshInterval, timers)
    /\ UNCHANGED <<hookState, refreshInterval, maxAgeMinutes, now, feedHist,
                   failedAfter, receivedLog, applied, settledLast>>
    /\ UNCHANGED <<snapshotRef, mapState>>

\* the Refresh Interval input: setRefreshInterval; the re-render runs the
\* cleanup of the effect, then the effect for the new interval
SetRefreshInterval(r) ==
    /\ mounted
    /\ r # refreshInterval
    /\ issued < MaxFetches
    /\ refreshInterval' = r
    /\ StartPolling(r, clearInterval(timers, interval))
    /\ UNCHANGED <<hookState, mounted, maxAgeMinutes, now, feedHist,
                   failedAfter, receivedLog, applied, settledLast>>
    /\ UNCHANGED <<snapshotRef, mapState>>

\* App is unmounted: the cleanup of the effect runs
Unmount ==
    /\ mounted
    /\ mounted' = FALSE
    /\ timers' = clearInterval(timers, interval)
    /\ UNCHANGED <<hookState, refreshInterval, interval, inFlight, maxAgeMinutes, now,
                   feedHist, pollHist>>
    /\ UNCHANGED <<snapshotRef, mapState>>

\* a timer is due: it calls fetchAircraft and is due again one period later
TimerFire(t) ==
    /\ t.due <= now
    /\ issued < MaxFetches
    /\ timers' = (timers \ {t}) \cup {[t EXCEPT !.due = @ + t.every]}
    /\ issued' = issued + 1
    /\ inFlight' = inFlight \cup {issued + 1}
    /\ UNCHANGED <<hookState, mounted, refreshInterval, interval, maxAgeMinutes, now,
                   feedHist, failedAfter, receivedLog, applied, settledLast>>
    /\ UNCHANGED <<snapshotRef, mapState>>

\* a continuation that drops the response of every fetch but the one issued
\* last
PollResolve_LatestOnly(f, data) ==
    /\ inFlight' = inFlight \ {f}
    /\ settledLast' = <<data>>
    /\ IF mounted /\ f = issued
       THEN /\ Settle(data)
            /\ receivedLog' = Append(receivedLog, f)
            /\ applied' = IF EffectRuns(data) THEN Append(applied, f) ELSE applied
       ELSE UNCHANGED <<hookState, maxAgeMinutes, now, receivedLog, applied>>
    /\ UNCHANGED <<mounted, refreshInterval, timers, interval, feedHist, issued,
                   failedAfter>>
    /\ UNCHANGED <<snapshotRef, mapState>>

\* the fetch f resolves with data: the try branch of fetchAircraft goes on.
\* React discards the state updates of a component that is unmounted.
PollResolve(f, data) ==
    /\ inFlight' = inFlight \ {f}
    /\ settledLast' = <<data>>
    /\ IF mounted
       THEN /\ Settle(data)
            /\ receivedLog' = Append(receivedLog, f)
            /\ applied' = IF EffectRuns(data) THEN Append(applied, f) ELSE applied
       ELSE UNCHANGED <<hookState, maxAgeMinutes, now, receivedLog, applied>>
    /\ UNCHANGED <<mounted, refreshInterval, timers, interval, feedHist, issued,
                   failedAfter>>
    /\ UNCHANGED <<snapshotRef, mapState>>

\* a failed fetch that stops the schedule
PollReject_StopPolling(f) ==
    /\ inFlight' = inFlight \ {f}
    /\ timers' = {}
    /\ IF mounted
       THEN Catch /\ failedAfter' = Num(issued)
       ELSE UNCHANGED <<hookState, maxAgeMinutes, now, failedAfter>>
    /\ UNCHANGED <<mounted, refreshInterval, interval, feedHist, issued,
                   receivedLog, applied, settledLast>>
    /\ UNCHANGED <<snapshotRef, mapState>>

\* the fetch f rejects (network error, HTTP status, invalid JSON): the catch
\* branch of fetchAircraft
PollReject(f) ==
    /\ inFlight' = inFlight \ {f}
    /\ IF mounted
       THEN Catch /\ failedAfter' = Num(issued)
       ELSE UNCHANGED <<hookState, maxAgeMinutes, now, failedAfter>>
    /\ UNCHANGED <<mounted, refreshInterval, timers, interval, feedHist, issued,
                   receivedLog, applied, settledLast>>
    /\ UNCHANGED <<snapshotRef, mapState>>

\* one second passes; a timer that is due is called first
Elapse ==
    /\ \A t \in timers : t.due > now
    /\ now + 1000 <= MaxPollSeconds * 1000
    /\ now' = now + 1000
    /\ UNCHANGED <<hookState, maxAgeMinutes, feedHist, pollVars, pollHist>>
    /\ UNCHANGED <<snapshotRef, mapState>>

NextPoll ==
    \/ Mount
    \/ \E r \in RefreshValues : SetRefreshInterval(r)
    \/ Unmount
    \/ \E t \in timers : TimerFire(t)
    \/ \E f \in inFlight : \E data \in PollSnapshots : PollResolve(f, data)
    \/ \E f \in inFlight : PollReject(f)
    \/ Elapse

SpecPoll == InitPoll /\ [][NextPoll]_vars

\* the age filter: records without position and with no lastseen, with
\* lastseen 0, and with a lastseen that is 300 s or 301 s old after one step
\* of the clock; each snapshot names an aircraft at most once
FilterSeens == {Null, Num(0), Num(59), Num(60)}

FilterRecords == {Rec(id, Null, Null, seen) : id \in Ids, seen \in FilterSeens}

FilterSnapshots ==
    {s \in UNION {[1..n -> FilterRecords] : n \in 0..Cardinality(Ids)} : DistinctIds(s)}

NextFilter ==
    \/ \E data \in FilterSnapshots : FetchSuccess(data)
    \/ FetchFailure
    \/ \E m \in MaxAgeValues : SetMaxAgeMinutes(m)
    \/ Tick

SpecFilter == Init /\ [][NextFilter]_vars

\* ------------------------------------------------------------------------
\* Vocabulary of the properties
\* ------------------------------------------------------------------------

\* 2 x maxAgeMinutes minutes, in milliseconds
ExpiryMs(maxAge) == 2 * maxAge * 60 * 1000

\* both coordinates of the record are present
BothCoordinates(ac) == ac.latitude # Null /\ ac.longitude # Null

\* the records of a sequence, as a set
Range(s) == {s[i] : i \in 1..Len(s)}

\* the snapshot has a record of the identifier
Names(aircraftData, id) == \E ac \in Range(aircraftData) : ac.icao24 = id

\* <<longitude, latitude>> of a track point
Place(point) == <<point[1], point[2]>>

\* a snapshot is received in this step, later than the one before it
ReceivedLater == lastUpdate # Null /\ lastUpdate' = Num(now) /\ lastUpdate' # lastUpdate

\* ------------------------------------------------------------------------
\* C1
\* ------------------------------------------------------------------------

C1_Cap == \A id \in DOMAIN tracks : Len(tracks[id]) <= MAX_TRACK_POINTS

\* a full buffer whose identifier the incoming snapshot puts further than the
\* threshold from its last point loses its oldest point and keeps the others,
\* in order, in front of the new point
C1_Fifo ==
    \A id \in DOMAIN tracks :
        (/\ Len(tracks[id]) = MAX_TRACK_POINTS
         /\ HasPlace(aircraft', id)
         /\ ~Within(PlaceOf(aircraft', id), Place(Last(tracks[id])))) =>
            /\ id \in DOMAIN tracks'
            /\ tracks'[id] = Append(SubSeq(tracks[id], 2, MAX_TRACK_POINTS),
                                    PlaceOf(aircraft', id) \o <<now>>)

\* C1: every track buffer holds at most MAX_TRACK_POINTS points in every
\* reachable state, and an append to a full buffer drops the oldest points
\* and keeps the others in order (FIFO).
C1_TrackCapFifo == []C1_Cap /\ [][C1_Fifo]_vars

\* a buffer was full, a point was appended and the oldest one dropped
C1_Witness ==
    \E id \in DOMAIN tracks :
        lastPass[id] = "truncated" /\ Len(tracks[id]) = MAX_TRACK_POINTS

\* ------------------------------------------------------------------------
\* C2
\* ------------------------------------------------------------------------

\* C2: in every reachable state any two consecutive points of a buffer differ
\* by more than TRACK_MIN_DISTANCE_CHANGE on longitude or on latitude (a point
\* is appended only if it differs that much from the last recorded point).
C2_ConsecutivePointsMoved ==
    \A id \in DOMAIN tracks :
        \A i \in 1..(Len(tracks[id]) - 1) :
            ~Within(Place(tracks[id][i]), Place(tracks[id][i + 1]))

\* a buffer of two points, to which the last snapshot offered a place that
\* is near the last point without being it, and did not append it
C2_Witness ==
    \E id \in DOMAIN tracks :
        /\ Len(tracks[id]) >= 2
        /\ lastPass[id] = "unchanged"
        /\ HasPlace(aircraft, id)
        /\ PlaceOf(aircraft, id) # Place(Last(tracks[id]))

\* ------------------------------------------------------------------------
\* C3
\* ------------------------------------------------------------------------

\* C3 as stated: an identifier fed positions whose consecutive deltas are all
\* at most the threshold on both axes has a buffer of exactly 1 point.
C3_SlowFeedOnePoint ==
    \A id \in DOMAIN tracks : fedSlow[id] => Len(tracks[id]) = 1

\* C3 amended: an identifier fed positions that are all within the threshold,
\* on both axes, of the first position fed (the recorded point) has a buffer
\* of exactly 1 point, that first position.
C3_NearFirstOnePoint ==
    \A id \in Ids :
        fedAnchor[id] # Null =>
            /\ id \in DOMAIN tracks
            /\ Len(tracks[id]) = 1
            /\ Place(tracks[id][1]) = fedAnchor[id]

\* a second, different position near the first one was fed and not recorded
C3_Witness ==
    \E id \in DOMAIN tracks :
        /\ fedAnchor[id] # Null
        /\ HasPlace(aircraft, id)
        /\ PlaceOf(aircraft, id) # fedAnchor[id]
        /\ lastPass[id] = "unchanged"

\* ------------------------------------------------------------------------
\* C4
\* ------------------------------------------------------------------------

\* C4: an identifier with a buffer to which the previous snapshot gave a
\* position and which the incoming snapshot omits, less than
\* 2 x maxAgeMinutes after that previous snapshot, keeps its buffer with
\* exactly the same points.
C4_RetainedWhileRecentlySeen ==
    [][\A id \in DOMAIN tracks :
          (/\ lastUpdate # Null
           /\ HasPlace(aircraft, id)
           /\ ~Names(aircraft', id)
           /\ now - lastUpdate[1] < ExpiryMs(maxAgeMinutes)) =>
              (id \in DOMAIN tracks' /\ tracks'[id] = tracks[id])]_vars

\* ------------------------------------------------------------------------
\* C5
\* ------------------------------------------------------------------------

\* C5: an identifier with a buffer that two consecutive received snapshots
\* omit, the second more than 2 x maxAgeMinutes after the first, is no longer
\* a key of the buffer map once the second has been processed.
C5_RemovedAfterLongAbsence ==
    [][\A id \in DOMAIN tracks :
          (/\ ReceivedLater
           /\ ~Names(aircraft, id)
           /\ ~Names(aircraft', id)
           /\ now - lastUpdate[1] > ExpiryMs(maxAgeMinutes)) =>
              id \notin DOMAIN tracks']_vars

\* ------------------------------------------------------------------------
\* C6
\* ------------------------------------------------------------------------

\* C6: receiving an empty snapshot evicts every buffer whose last point is
\* older than 2 x maxAgeMinutes and keeps every younger buffer unchanged.
C6_EmptySnapshotStalenessCheck ==
    [][(ReceivedLater /\ aircraft' = <<>>) =>
          \A id \in DOMAIN tracks :
              IF now - Last(tracks[id])[3] > ExpiryMs(maxAgeMinutes)
              THEN id \notin DOMAIN tracks'
              ELSE id \in DOMAIN tracks' /\ tracks'[id] = tracks[id]]_vars

\* ------------------------------------------------------------------------
\* C7
\* ------------------------------------------------------------------------

\* C7: an identifier named by the incoming snapshot keeps its buffer in that
\* pass, whatever the age of its last point, its lastseen and its position.
C7_PresentNeverEvicted ==
    [][\A id \in DOMAIN tracks :
          Names(aircraft', id) => id \in DOMAIN tracks']_vars

\* the last snapshot named an identifier without a position and with an old
\* lastseen, when the last point of its buffer was older than the expiry
\* bound of every threshold, and the buffer is still there
C7_Witness ==
    \E id \in DOMAIN tracks :
        /\ lastUpdate # Null
        /\ \E ac \in Range(aircraft) :
              /\ ac.icao24 = id
              /\ ~BothCoordinates(ac)
              /\ ac.lastseen # Null
              /\ lastUpdate[1] - ac.lastseen[1] * 1000 > ExpiryMs(DEFAULT_MAX_AGE_MINUTES)
        /\ lastUpdate[1] - Last(tracks[id])[3] > ExpiryMs(DEFAULT_MAX_AGE_MINUTES) + 1000
        /\ lastPass[id] = "unchanged"

\* ------------------------------------------------------------------------
\* C8
\* ------------------------------------------------------------------------

\* C8: a pass removes the buffer of an identifier absent from the incoming
\* snapshot or leaves its points exactly as they were.
C8_AbsentRemovedOrUntouched ==
    [][\A id \in DOMAIN tracks :
          ~Names(aircraft', id) =>
              (id \notin DOMAIN tracks' \/ tracks'[id] = tracks[id])]_vars

\* one pass over a snapshot naming neither aircraft evicted the buffer of
\* one and left the buffer of the other as it was
C8_Witness ==
    /\ aircraft # <<>>
    /\ \A id \in Ids : ~Names(aircraft, id)
    /\ \E id \in Ids : lastPass[id] = "evicted" /\ id \notin DOMAIN tracks
    /\ \E id \in Ids : lastPass[id] = "unchanged" /\ id \in DOMAIN tracks

\* ------------------------------------------------------------------------
\* C9
\* ------------------------------------------------------------------------

\* C9: a record with an identifier and both coordinates, 0 included, starts
\* a buffer at its position when the identifier has none; a buffer is never
\* started for an identifier whose record lacks a coordinate, nor for a
\* record without identifier, and such a record changes no buffer.
C9_ZeroCoordinateValidity ==
    [][/\ \A ac \in Range(aircraft') :
             (ac.icao24 # NoId /\ ac.icao24 \notin DOMAIN tracks) =>
                 IF BothCoordinates(ac)
                 THEN /\ ac.icao24 \in DOMAIN tracks'
                      /\ tracks'[ac.icao24]
                             = <<<<ac.longitude[1], ac.latitude[1], now>>>>
                 ELSE ac.icao24 \notin DOMAIN tracks'
       /\ \A ac \in Range(aircraft') :
             (ac.icao24 \in DOMAIN tracks /\ ~BothCoordinates(ac)) =>
                 tracks'[ac.icao24] = tracks[ac.icao24]
       /\ DOMAIN tracks' \subseteq Ids]_vars

\* a record at latitude 0 and longitude 0 started a buffer
C9_Witness ==
    \E id \in DOMAIN tracks :
        /\ lastPass[id] = "created"
        /\ HasPlace(aircraft, id)
        /\ PlaceOf(aircraft, id) = <<0, 0>>
        /\ tracks[id] = <<<<0, 0, lastUpdate[1]>>>>

\* ------------------------------------------------------------------------
\* C10
\* ------------------------------------------------------------------------

\* C10: a live record is in the rendered set exactly when both its
\* coordinates are present, 0 counting as a coordinate.
C10_RenderedIffBothCoordinates ==
    \A ac \in Range(filteredAircraft) :
        ac \in Range(validAircraft) <=> BothCoordinates(ac)

\* ------------------------------------------------------------------------
\* C11
\* ------------------------------------------------------------------------

\* the places of the points of a buffer, in order
Places(buffer) == [i \in 1..Len(buffer) |-> Place(buffer[i])]

\* C11: an identifier fed more than MAX_TRACK_POINTS positions, each further
\* than the threshold from the one before, has a buffer of exactly
\* MAX_TRACK_POINTS points: the last MAX_TRACK_POINTS positions fed, in the
\* order they were fed.
C11_CapKeepsMostRecent ==
    \A id \in Ids :
        (fedRun[id] # Null /\ fedRun[id][1] > MAX_TRACK_POINTS) =>
            /\ id \in DOMAIN tracks
            /\ Len(tracks[id]) = MAX_TRACK_POINTS
            /\ Places(tracks[id]) = fedRun[id][2]

\* more than MAX_TRACK_POINTS separated positions were fed, at increasing
\* times, and the last one pushed the oldest point out
C11_Witness ==
    \E id \in DOMAIN tracks :
        /\ fedRun[id] # Null
        /\ fedRun[id][1] > MAX_TRACK_POINTS
        /\ lastPass[id] = "truncated"
        /\ \A i \in 1..(Len(tracks[id]) - 1) : tracks[id][i][3] < tracks[id][i + 1][3]

\* ------------------------------------------------------------------------
\* C12
\* ------------------------------------------------------------------------

\* the age filter is computed in this step: a snapshot is received or the
\* threshold changes
FilterComputed ==
    \/ lastUpdate' # lastUpdate
    \/ aircraft' # aircraft
    \/ maxAgeMinutes' # maxAgeMinutes

\* C12: whenever the filter is computed, a record of the snapshot is in its
\* output exactly when the record has no lastseen or its age in seconds,
\* nowSeconds - lastseen, is at most 60 x maxAgeMinutes; a lastseen of 0 is a
\* lastseen like any other.
C12_KeptIffAbsentOrRecent ==
    [][FilterComputed =>
          \A ac \in Range(aircraft') :
              ac \in Range(filteredAircraft') <=>
                  \/ ac.lastseen = Null
                  \/ (now' \div 1000) - ac.lastseen[1] <= 60 * maxAgeMinutes']_vars

\* ------------------------------------------------------------------------
\* C13
\* ------------------------------------------------------------------------

\* C13: in every reachable state, whatever the threshold and the time, every
\* record of the held snapshot that has no lastseen is in the filter's output.
C13_NoLastSeenAlwaysKept ==
    \A ac \in Range(aircraft) :
        ac.lastseen = Null => ac \in Range(filteredAircraft)

\* under the smallest threshold and after the clock has advanced, the filter
\* kept the record without lastseen and dropped the other record
C13_Witness ==
    /\ maxAgeMinutes = MAX_AGE_MIN
    /\ now > 0
    /\ lastUpdate = Num(now)
    /\ Len(aircraft) = 2
    /\ Len(filteredAircraft) = 1
    /\ filteredAircraft[1].lastseen = Null

\* ------------------------------------------------------------------------
\* C14
\* ------------------------------------------------------------------------

\* out is in, with some elements left out
IsSubsequence(out, in) ==
    \E f \in [1..Len(out) -> 1..Len(in)] :
        /\ \A i \in 1..Len(out) : out[i] = in[f[i]]
        /\ \A i \in 1..(Len(out) - 1) : f[i] < f[i + 1]

C14_OutputIsSubsequence == IsSubsequence(filteredAircraft, aircraft)

C14_InputUnchanged == maxAgeMinutes' # maxAgeMinutes => aircraft' = aircraft

\* C14: the output of the filter is a subsequence of the held snapshot (its
\* records are records of the snapshot, in the snapshot's order), and
\* computing the filter again for a new threshold leaves the snapshot as it is.
C14_FilterPreservesOrder ==
    []C14_OutputIsSubsequence /\ [][C14_InputUnchanged]_vars

\* two different records, one of them with a lastseen, both kept in the
\* order of the snapshot
C14_Witness ==
    /\ Len(aircraft) = 2
    /\ aircraft[1] # aircraft[2]
    /\ Truthy(aircraft[1].lastseen)
    /\ aircraft[1].lastseen # aircraft[2].lastseen
    /\ filteredAircraft = aircraft

\* ------------------------------------------------------------------------
\* Vocabulary of the properties of the polling schedule
\* ------------------------------------------------------------------------

\* in this step a fetch of the mounted App settles without a snapshot
FetchFailed ==
    /\ mounted
    /\ inFlight' # inFlight
    /\ inFlight' \subseteq inFlight
    /\ receivedLog' = receivedLog

\* in this step App is mounted or the poll interval changes
ScheduleReset == mounted' /\ (~mounted \/ refreshInterval' # refreshInterval)

\* in this step a fetch is issued by a tick of the schedule
TickIssued == issued' # issued /\ ~ScheduleReset

\* App was mounted and is not any more
Unmounted == ~mounted /\ issued > 0

\* ------------------------------------------------------------------------
\* C15
\* ------------------------------------------------------------------------

\* C15: a failed fetch leaves the held snapshot, the live subset, the track
\* buffers and the time of the last successful update as they were, sets the
\* error string, and leaves App mounted with its timer running.
C15_FailurePreservesData ==
    [][FetchFailed =>
          /\ aircraft' = aircraft
          /\ filteredAircraft' = filteredAircraft
          /\ tracks' = tracks
          /\ lastUpdate' = lastUpdate
          /\ error' # ""
          /\ mounted'
          /\ timers' = timers
          /\ timers' # {}]_vars

\* a fetch failed while a snapshot and a track buffer were held
C15_Witness ==
    /\ mounted
    /\ failedAfter # Null
    /\ error # ""
    /\ aircraft # <<>>
    /\ tracks # NoTracks
    /\ lastUpdate # Null

\* ------------------------------------------------------------------------
\* C16
\* ------------------------------------------------------------------------

\* while App is mounted a timer of the current interval is running and its
\* next tick is at most one interval away
C16_TimerRunning ==
    mounted =>
        \E t \in timers :
            /\ t.every = refreshInterval * 1000
            /\ now <= t.due
            /\ t.due <= now + t.every

\* a failed fetch changes neither the timer nor the interval, and a snapshot
\* received afterwards is applied: it clears the error and sets the time of
\* the last update
C16_FailureKeepsSchedule ==
    /\ FetchFailed => (timers' = timers /\ refreshInterval' = refreshInterval)
    /\ (mounted /\ receivedLog' # receivedLog) =>
           (error' = "" /\ lastUpdate' = Num(now))

\* C16: while App is mounted, whatever fetches have failed, the timer of the
\* current interval keeps running with its period unchanged, and a response
\* that succeeds later is applied.
C16_FailureNeverStopsPolling ==
    []C16_TimerRunning /\ [][C16_FailureKeepsSchedule]_vars

\* with the interval never changed, a fetch failed, a tick of the timer
\* issued a fetch after that, and its snapshot was received and applied
C16_Witness ==
    /\ mounted
    /\ interval = 1
    /\ failedAfter # Null
    /\ receivedLog # <<>>
    /\ Last(receivedLog) > failedAfter[1]
    /\ error = ""
    /\ lastUpdate = Num(now)

\* ------------------------------------------------------------------------
\* C17
\* ------------------------------------------------------------------------

\* C17: a tick of the schedule issues a fetch only when the previous fetch
\* has settled: no fetch is in flight when a tick issues one.
C17_NoOverlappingTick ==
    [][TickIssued => inFlight = {}]_vars

\* ------------------------------------------------------------------------
\* C18
\* ------------------------------------------------------------------------

\* at most one timer is active, and none once App is unmounted
C18_OneTimer ==
    /\ Cardinality(timers) <= 1
    /\ ~mounted => timers = {}

\* a change of the interval and an unmount leave no timer of the old
\* schedule; once App is unmounted no fetch is issued and no callback
\* changes the state of the hooks
C18_Cancelled ==
    /\ (mounted /\ (~mounted' \/ refreshInterval' # refreshInterval)) =>
           timers \cap timers' = {}
    /\ Unmounted =>
           /\ issued' = issued
           /\ UNCHANGED <<aircraft, lastUpdate, error, loading, filteredAircraft, tracks>>

\* C18: changing the poll interval or unmounting cancels the pending tick:
\* no timer of the old schedule remains, at most one timer is active at any
\* time, and after the unmount no tick issues a fetch and no continuation of
\* a fetch changes the state.
C18_TeardownCancelsTimer ==
    []C18_OneTimer /\ [][C18_Cancelled]_vars

\* App was unmounted after the interval had been changed, with a fetch in
\* flight that settled after the unmount and was neither received nor
\* reported as a failure
C18_Witness ==
    /\ Unmounted
    /\ refreshInterval # DEFAULT_REFRESH_INTERVAL
    /\ timers = {}
    /\ inFlight = {}
    /\ failedAfter = Null
    /\ Len(receivedLog) < issued

\* ------------------------------------------------------------------------
\* C19
\* ------------------------------------------------------------------------

\* the mount and every change of the interval issue exactly one fetch at
\* once and start one timer of the new interval, first due one interval later
C19_ImmediateFirstTick ==
    ScheduleReset =>
        /\ issued' = issued + 1
        /\ inFlight' = inFlight \cup {issued'}
        /\ timers' = {[id |-> issued',
                       every |-> refreshInterval' * 1000,
                       due |-> now + refreshInterval' * 1000]}

\* every other fetch is issued by the timer of the current interval when it
\* is due, and the timer is due again one interval later
C19_TicksSpaced ==
    TickIssued =>
        /\ issued' = issued + 1
        /\ inFlight' = inFlight \cup {issued'}
        /\ \E t \in timers :
              /\ t.due = now
              /\ t.every = refreshInterval * 1000
              /\ timers' = {[t EXCEPT !.due = now + refreshInterval * 1000]}

\* C19: on mount and on every change of the poll interval one fetch, and
\* only one, is issued immediately, and the following fetches are issued one
\* new interval apart.
C19_ScheduleResetFetchesOnce ==
    [][C19_ImmediateFirstTick /\ C19_TicksSpaced]_vars

\* the interval was changed from 1 s to 2 s at time 0 (the change issued the
\* second fetch), and the new timer has ticked at 2 s
C19_Witness ==
    /\ mounted
    /\ refreshInterval = 2
    /\ now = 2000
    /\ issued = 3
    /\ timers = {[id |-> 2, every |-> 2000, due |-> 4000]}

\* ------------------------------------------------------------------------
\* C20
\* ------------------------------------------------------------------------

C21_HeldIsLastSettled ==
    (mounted /\ settledLast # Null) => aircraft = settledLast[1]

\* a fetch leaves the set of fetches in flight only by settling: a change of
\* the interval and a new fetch remove none, and the fetch of the mounted App
\* that settles is received or reported as failed
C21_NeverCancelled ==
    /\ issued' # issued => inFlight \subseteq inFlight'
    /\ (mounted /\ inFlight' # inFlight /\ inFlight' \subseteq inFlight) =>
           \/ /\ Len(receivedLog') = Len(receivedLog) + 1
              /\ {Last(receivedLog')} = inFlight \ inFlight'
              /\ lastUpdate' = Num(now)
           \/ /\ receivedLog' = receivedLog
              /\ error' # ""

\* C21: no fetch in flight is cancelled; a response that resolves after the
\* interval was changed or after a later fetch was issued is applied, so the
\* held snapshot is always the response that resolved last.
C21_LastWriteWins ==
    []C21_HeldIsLastSettled /\ [][C21_NeverCancelled]_vars

\* after the interval was changed, the response to the first fetch resolved
\* after the response to a later fetch, with another snapshot, and is held
C21_Witness ==
    /\ mounted
    /\ refreshInterval # DEFAULT_REFRESH_INTERVAL
    /\ Len(receivedLog) >= 2
    /\ Last(receivedLog) = 1
    /\ aircraft # <<>>
    /\ aircraft = settledLast[1]
    /\ tracks # NoTracks
    /\ lastPass["A"] = "created"

\* ------------------------------------------------------------------------
\* C22
\* ------------------------------------------------------------------------

\* C22: when the mounted App receives a snapshot, the held list becomes
\* exactly the list received, so that no record that is not in it stays held,
\* and the time of the last update becomes the current time, not earlier than
\* the one before.
C22_FullReplacement ==
    [][(mounted /\ receivedLog' # receivedLog) =>
          /\ aircraft' = settledLast'[1]
          /\ \A ac \in Range(aircraft) :
                 ac \notin Range(settledLast'[1]) => ac \notin Range(aircraft')
          /\ lastUpdate' = Num(now)
          /\ lastUpdate # Null => lastUpdate'[1] >= lastUpdate[1]]_vars

\* a snapshot with a record was held, an empty snapshot was received later
\* on the clock, and the record is not held any more
C22_Witness ==
    /\ mounted
    /\ Len(receivedLog) >= 2
    /\ "A" \in DOMAIN tracks
    /\ aircraft = <<>>
    /\ lastUpdate = Num(now)
    /\ lastUpdate[1] > Last(tracks["A"])[3]

\* ------------------------------------------------------------------------
\* C23
\* ------------------------------------------------------------------------

\* C23: when an identifier whose buffer was evicted gets a buffer again, the
\* buffer holds exactly one point, at the position and the time of the
\* snapshot in which it reappears, and none of the points held before the
\* eviction.
C23_FreshBufferAfterEviction ==
    \A id \in Ids :
        (heldBefore[id] # Null /\ lastPass[id] = "created") =>
            /\ id \in DOMAIN tracks
            /\ Len(tracks[id]) = 1
            /\ tracks[id][1] = PlaceOf(aircraft, id) \o <<lastUpdate[1]>>
            /\ tracks[id][1] \notin Range(heldBefore[id])

\* a buffer of two points was evicted and the identifier came back at the
\* place of one of them
C23_Witness ==
    \E id \in DOMAIN tracks :
        /\ heldBefore[id] # Null
        /\ Len(heldBefore[id]) = 2
        /\ lastPass[id] = "created"
        /\ \E i \in 1..2 : Place(heldBefore[id][i]) = Place(tracks[id][1])

\* ------------------------------------------------------------------------
\* C26
\* ------------------------------------------------------------------------

\* C26: after every pass the buffer map object held before the pass has the
\* keys it had and, under each, the points it had, while the object the pass
\* returns holds the new buffers.
C26_PassLeavesPreviousMapIntact ==
    /\ prevSeen = prevHeld
    /\ nextSeen = tracks

\* the last pass appended a point to a full buffer, so that the new map
\* differs from the previous one, which still holds the points it had
C26_Witness ==
    \E id \in DOMAIN tracks :
        /\ lastPass[id] = "truncated"
        /\ id \in DOMAIN prevHeld
        /\ Len(prevHeld[id]) = MAX_TRACK_POINTS
        /\ prevHeld[id] # tracks[id]
        /\ prevSeen[id] = prevHeld[id]

\* ------------------------------------------------------------------------
\* C24
\* ------------------------------------------------------------------------

\* a snapshot is received in this step
Received == lastUpdate' = Num(now) /\ (lastUpdate' # lastUpdate \/ aircraft' # aircraft)

\* the record is live at nowMs under the threshold
Live(ac, nowMs, maxAge) ==
    \/ ac.lastseen = Null
    \/ (nowMs \div 1000) - ac.lastseen[1] <= 60 * maxAge

\* a record the filter leaves out still counts as present, and its position
\* is recorded: it starts a buffer, or is appended when it is further than
\* the threshold from the last point
C24_BuffersFromFullSnapshot ==
    Received =>
        \A ac \in Range(aircraft') :
            (ac \notin Range(filteredAircraft') /\ ac.icao24 # NoId) =>
                LET id == ac.icao24
                    point == <<ac.longitude[1], ac.latitude[1], now>>
                IN  /\ id \in DOMAIN tracks => id \in DOMAIN tracks'
                    /\ (BothCoordinates(ac) /\ id \notin DOMAIN tracks) =>
                           (id \in DOMAIN tracks' /\ tracks'[id] = <<point>>)
                    /\ (/\ BothCoordinates(ac)
                        /\ id \in DOMAIN tracks
                        /\ ~Within(Place(point), Place(Last(tracks[id])))) =>
                           Last(tracks'[id]) = point

\* the live subset is decided by the snapshot, the time and the threshold
\* alone, and computing it changes no buffer
C24_FilterFromFullSnapshot ==
    /\ (Received \/ maxAgeMinutes' # maxAgeMinutes) =>
           \A ac \in Range(aircraft') :
               ac \in Range(filteredAircraft') <=> Live(ac, now, maxAgeMinutes')
    /\ maxAgeMinutes' # maxAgeMinutes => tracks' = tracks

\* C24: the buffer update takes the unfiltered snapshot: a record the filter
\* leaves out as stale has its position recorded and counts as present; and
\* the filter's output depends on the snapshot, the time and the threshold
\* only, not on the buffers.
C24_FilterAndBuffersIndependent ==
    [][C24_BuffersFromFullSnapshot /\ C24_FilterFromFullSnapshot]_vars

\* the last snapshot held a record with a position that the filter left out
\* as stale, and the pass started a buffer for it
C24_Witness ==
    \E ac \in Range(aircraft) :
        /\ ac.icao24 # NoId
        /\ BothCoordinates(ac)
        /\ ac.lastseen # Null
        /\ ac \notin Range(filteredAircraft)
        /\ lastPass[ac.icao24] = "created"
        /\ ac.icao24 \in DOMAIN tracks

\* ------------------------------------------------------------------------
\* C25
\* ------------------------------------------------------------------------

\* the timestamps of a buffer never decrease along the buffer
C25_Chronological ==
    \A id \in DOMAIN tracks :
        \A i \in 1..(Len(tracks[id]) - 1) : tracks[id][i][3] <= tracks[id][i + 1][3]

\* the points of a buffer that the buffer did not hold before the step
NewPoints(id) ==
    IF id \in DOMAIN tracks
    THEN Range(tracks'[id]) \ Range(tracks[id])
    ELSE Range(tracks'[id])

\* every point a pass records carries the time of the pass
C25_IngestionTime ==
    \A id \in DOMAIN tracks' : \A point \in NewPoints(id) : point[3] = now

FreshColor == <<231, 76, 60>>

\* #ffb3a8
StaleColor == <<255, 179, 168>>

\* Math.round of the quotient num / den, den > 0: the nearest integer, a
\* half going up
Round(num, den) == (2 * num + den) \div (2 * den)

\* Math.round(fresh + (stale - fresh) * ratio) with
\* ratio = Math.min(ageInSeconds / 60 / maxAge, 1); only the upper side of
\* the ratio is limited
Channel(fresh, stale, ageInSeconds, maxAge) ==
    LET whole == 60 * maxAge
        part == IF ageInSeconds < whole THEN ageInSeconds ELSE whole
    IN  Round(fresh * whole + (stale - fresh) * part, whole)

getAircraftColor(lastseen, nowMs, maxAge) ==
    IF ~Truthy(lastseen)
    THEN FreshColor
    ELSE LET currentTime == nowMs \div 1000
             ageInSeconds == currentTime - lastseen[1]
         IN  [c \in 1..3 |-> Channel(FreshColor[c], StaleColor[c], ageInSeconds, maxAge)]

\* validAircraft.map(ac => <Marker ... color: getAircraftColor(ac.lastseen)>):
\* one marker per record of the live subset that has a position, with the
\* inputs its colour was computed from
Markers(shown, nowMs, maxAge) ==
    LET valid == SelectSeq(shown, HasPosition)
    IN  [i \in 1..Len(valid) |->
            [lastseen |-> valid[i].lastseen,
             at |-> nowMs,
             maxAge |-> maxAge,
             color |-> getAircraftColor(valid[i].lastseen, nowMs, maxAge)]]

\* records with a position whose lastseen is absent, 0, before, at and after
\* the clock's first step (360 s)
ColorSeens == {Null, Num(0), Num(210), Num(360), Num(400)}

ColorSnapshots == {<<>>} \cup {<<Rec("A", Num(1), Num(1), seen)>> : seen \in ColorSeens}

\* a response arrives and App renders the map with the new live subset
ReceiveAndRender(data) ==
    /\ Settle(data)
    /\ marker' = Markers(filteredAircraft', now, maxAgeMinutes)
    /\ UNCHANGED <<feedHist, pollVars, pollHist, snapshotRef, selection>>

\* the threshold changes and App renders the map with the new live subset
SetMaxAgeAndRender(m) ==
    /\ m # maxAgeMinutes
    /\ maxAgeMinutes' = m
    /\ filteredAircraft' = useFilteredAircraft(aircraft, now, m)
    /\ marker' = Markers(filteredAircraft', now, m)
    /\ UNCHANGED <<aircraft, lastUpdate, error, loading, tracks, now, lastPass,
                   feedHist, pollVars, pollHist, snapshotRef, selection>>

\* the map renders again with the props it has: onMove sets the viewport
Rerender ==
    /\ marker' = Markers(filteredAircraft, now, maxAgeMinutes)
    /\ UNCHANGED <<aircraft, lastUpdate, error, loading, maxAgeMinutes,
                   filteredAircraft, tracks, now, lastPass,
                   feedHist, pollVars, pollHist, snapshotRef, selection>>

NextColor ==
    \/ \E data \in ColorSnapshots : ReceiveAndRender(data)
    \/ \E m \in MaxAgeValues : SetMaxAgeAndRender(m)
    \/ Rerender
    \/ Tick

SpecColor == Init /\ [][NextColor]_vars

\* ------------------------------------------------------------------------
\* C27
\* ------------------------------------------------------------------------

\* the markers drawn
Drawn == IF marker = Null THEN {} ELSE Range(marker)

\* the age, in seconds, of the lastseen a marker was coloured from
AgeOf(m) == (m.at \div 1000) - m.lastseen[1]

\* an absent lastseen gives the fresh colour
C27_AbsentIsFresh ==
    \A m \in Drawn : m.lastseen = Null => m.color = FreshColor

\* an age at or beyond the threshold gives the stale colour
C27_BeyondThresholdIsStale ==
    \A m \in Drawn :
        (m.lastseen # Null /\ AgeOf(m) >= 60 * m.maxAge) => m.color = StaleColor

\* each channel lies between its fresh and its stale value
C27_ChannelsBetweenEndpoints ==
    \A m \in Drawn : \A c \in 1..3 :
        FreshColor[c] <= m.color[c] /\ m.color[c] <= StaleColor[c]

\* C27: an absent lastseen gives the fresh colour (231, 76, 60); every age
\* at or beyond the threshold gives the stale colour (255, 179, 168); and
\* for every input each channel lies between its two endpoint values.
C27_ColorBetweenFreshAndStale ==
    C27_AbsentIsFresh /\ C27_BeyondThresholdIsStale /\ C27_ChannelsBetweenEndpoints

\* ------------------------------------------------------------------------
\* C28
\* ------------------------------------------------------------------------

\* C28: at every moment, whether the fetches succeed or fail, the live
\* subset holds no record whose lastseen is present and older than
\* maxAgeMinutes at the current time.
C28_LiveSubsetNeverStale ==
    \A ac \in Range(filteredAircraft) :
        ac.lastseen # Null => (now \div 1000) - ac.lastseen[1] <= 60 * maxAgeMinutes

\* ------------------------------------------------------------------------
\* The track buffers while polling keeps succeeding
\* ------------------------------------------------------------------------

\* the responses: no aircraft, the aircraft "A", a record without identifier
LiveSnapshots == {<<>>} \cup FeedSnapshots \cup OmittingSnapshots

\* fetchAircraft, try branch: response.json() is a new array each time, so
\* setAircraft renders with a new `aircraft` whatever the array holds
Receive(data) ==
    /\ Settle(data)
    /\ snapshotRef' = 1 - snapshotRef
    /\ UNCHANGED <<feedHist, pollVars, pollHist, mapState>>

ReceiveSome == \E data \in LiveSnapshots : Receive(data)

NextLive ==
    \/ ReceiveSome
    \/ Tick

\* the interval timer keeps calling fetchAircraft and the fetches keep
\* succeeding; the clock keeps running as far as the model counts it
SpecLive ==
    /\ Init
    /\ [][NextLive]_vars
    /\ WF_vars(ReceiveSome)
    /\ WF_vars(Tick)

\* ------------------------------------------------------------------------
\* C29
\* ------------------------------------------------------------------------

\* the identifier has a buffer whose last point is older than
\* 2 x maxAgeMinutes, and the held snapshot does not name it
StaleAndAbsent(id) ==
    /\ id \in DOMAIN tracks
    /\ now - Last(tracks[id])[3] > ExpiryMs(maxAgeMinutes)
    /\ ~Names(aircraft, id)

\* C29: while polling keeps succeeding, a buffer that is older than
\* 2 x maxAgeMinutes and whose identifier is absent from the snapshots is
\* eventually removed, unless a later snapshot names the identifier again,
\* whatever the later snapshots hold.
C29_StaleBufferEventuallyRemoved ==
    \A id \in Ids :
        StaleAndAbsent(id) ~> (id \notin DOMAIN tracks \/ Names(aircraft, id))

\* ------------------------------------------------------------------------
\* AircraftMap: the selected aircraft and its detailed track
\* ------------------------------------------------------------------------

\* everything but the selection state
outsideSelection == <<aircraft, lastUpdate, error, loading, maxAgeMinutes,
                      filteredAircraft, tracks, now, lastPass, feedHist,
                      pollVars, pollHist, snapshotRef, marker>>

\* a call of fetchAircraftTrack(icao24) that has not settled
TrackRequest(n, id) == [request |-> n, icao24 |-> id]

\* the array GET /track?icao24=id answers with, named by its request
TrackData(req) == [icao24 |-> req.icao24, request |-> req.request]

\* a click on the marker of another aircraft: setSelectedAircraft(ac); the
\* effect takes the branch `if (selectedAircraft)`: setLoadingTrack(true),
\* fetchAircraftTrack(selectedAircraft.icao24). The held track stays, and the
\* requests in flight go on
Select(id) ==
    /\ id # selectedAircraft
    /\ trackIssued < MaxTrackRequests
    /\ selectedAircraft' = id
    /\ loadingTrack' = TRUE
    /\ trackIssued' = trackIssued + 1
    /\ trackRequests' = trackRequests \cup {TrackRequest(trackIssued', id)}
    /\ UNCHANGED <<selectedAircraftTrack, isTrackingAircraft, outsideSelection>>

\* the close button of the sidebar: setSelectedAircraft(null); the effect
\* takes the else branch: setSelectedAircraftTrack(null),
\* onTrackingAircraft(false)
CloseSidebar ==
    /\ selectedAircraft # NoId
    /\ selectedAircraft' = NoId
    /\ selectedAircraftTrack' = Null
    /\ isTrackingAircraft' = FALSE
    /\ UNCHANGED <<loadingTrack, trackRequests, trackIssued, outsideSelection>>

\* .then(trackData => ...) of a request, whatever is selected by now
TrackResolve(req) ==
    /\ trackRequests' = trackRequests \ {req}
    /\ selectedAircraftTrack' = <<TrackData(req)>>
    /\ loadingTrack' = FALSE
    /\ isTrackingAircraft' = TRUE
    /\ UNCHANGED <<selectedAircraft, trackIssued, outsideSelection>>

\* .catch(error => ...) of a request
TrackReject(req) ==
    /\ trackRequests' = trackRequests \ {req}
    /\ loadingTrack' = FALSE
    /\ UNCHANGED <<selectedAircraft, selectedAircraftTrack, isTrackingAircraft,
                   trackIssued, outsideSelection>>

NextSelect ==
    \/ \E id \in Ids : Select(id)
    \/ CloseSidebar
    \/ \E req \in trackRequests : TrackResolve(req)
    \/ \E req \in trackRequests : TrackReject(req)

SpecSelect == Init /\ [][NextSelect]_vars

\* ------------------------------------------------------------------------
\* C30
\* ------------------------------------------------------------------------

\* C30: under every interleaving of selecting aircraft, closing the sidebar
\* and track responses settling, the detailed track held by the map is
\* empty or is the track of the aircraft selected now.
C30_TrackBelongsToSelected ==
    selectedAircraftTrack # Null =>
        selectedAircraftTrack[1].icao24 = selectedAircraft

\* ------------------------------------------------------------------------
\* C31
\* ------------------------------------------------------------------------

\* C31: the tracking flag reported to App is true only while an aircraft is
\* selected: once the selection is cleared the flag is false and stays false
\* until an aircraft is selected, also when a track response settles after
\* the sidebar was closed.
C31_TrackingOnlyWhileSelected ==
    isTrackingAircraft => selectedAircraft # NoId

\* ------------------------------------------------------------------------
\* C32
\* ------------------------------------------------------------------------

\* in this step a fetch of the mounted App settles with a snapshot
FetchSucceeded == mounted /\ receivedLog' # receivedLog

\* after a fetch settles the error is null when it succeeded and the message
\* when it failed; the error changes in no other step, so that only a
\* success clears it; and loading, once false, stays false
C32_ErrorFollowsSettlement ==
    /\ FetchSucceeded => (error' = "" /\ ~loading')
    /\ FetchFailed => (error' = "HTTP error!" /\ ~loading')
    /\ error' # error => (FetchSucceeded \/ FetchFailed)
    /\ ~loading => ~loading'

\* loading is true until the first fetch has settled, and the error is null
\* until a fetch has failed
C32_LoadingUntilSettled ==
    /\ loading <=> (receivedLog = <<>> /\ failedAfter = Null)
    /\ failedAfter = Null => error = ""

\* C32: after every fetch of the mounted App settles, the error is null
\* exactly when that fetch succeeded and the failure message exactly when it
\* failed; an error is cleared by a later success and by nothing else; and
\* loading is true until the first settlement and never again.
C32_ErrorAndLoadingFollowFetches ==
    []C32_LoadingUntilSettled /\ [][C32_ErrorFollowsSettlement]_vars

\* a fetch failed, a fetch that settled after it succeeded and cleared the
\* error, and another fetch is in flight
C32_Witness ==
    /\ mounted
    /\ failedAfter # Null
    /\ receivedLog # <<>>
    /\ error = ""
    /\ ~loading
    /\ inFlight # {}

\* ------------------------------------------------------------------------
\* C33
\* ------------------------------------------------------------------------

\* every buffer of the map holds a point
C33_BuffersNonEmpty ==
    \A id \in DOMAIN tracks : Len(tracks[id]) >= 1

\* within a pass, every buffer the clean-up reads the last point of holds a
\* point
C33_CleanUpReadsDefined ==
    (Received /\ EffectRuns(aircraft')) =>
        LET newTracks == RecordPositions(tracks, aircraft', 1, now)
        IN  \A id \in DOMAIN newTracks : Len(newTracks[id]) >= 1

\* C33: every buffer of the track buffer map is non-empty in every reachable
\* state, and within a pass, so that the last point read by the dedup and by
\* the clean-up is always defined.
C33_EveryBufferNonEmpty ==
    []C33_BuffersNonEmpty /\ [][C33_CleanUpReadsDefined]_vars

\* the last pass truncated one buffer to the cap and evicted another, and
\* the map is not empty
C33_Witness ==
    /\ lastPass["A"] = "truncated"
    /\ Len(tracks["A"]) = MAX_TRACK_POINTS
    /\ lastPass["B"] = "evicted"
    /\ "B" \notin DOMAIN tracks

====
